---- MODULE Spec2Model ----
(***************************************************************************)
(* Story-list state machine of hacker-stories: the storiesReducer, the     *)
(* load effect around getAsyncStories, the searchedStories projection and  *)
(* the useStorageState hook over localStorage.                             *)
(*                                                                         *)
(* Two snapshots carry the reducer-driven App: src/src/App.tsx ("App") and *)
(* the first component of src/unnamed/part_002 ("part_002").  They differ  *)
(* in the fallback handed to useStorageState, in the reset button and in   *)
(* what is rendered while isLoading is true.                               *)
(*                                                                         *)
(* JavaScript strings that the code inspects (titles, search terms,        *)
(* stored items) are sequences of one-character strings.                   *)
(***************************************************************************)
EXTENDS Integers, Sequences, FiniteSets, TLC

VARIABLES
    snapshot,       \* which App component is running: "App" or "part_002"
    phase,          \* "unmounted", "mounted" or, after an uncaught error, "crashed"
    session,        \* number of mounts so far; the current mount when mounted
    localStorage,   \* the browser store: a function from the keys it holds
    searchTerm,     \* useStorageState's value
    stories,        \* useReducer(storiesReducer, [])
    isLoading,      \* useState(false), updates not yet rendered included
    screenLoading,  \* the isLoading of the render that is on screen
    isError,        \* useState(false)
    promise,        \* per mount, the state of the promise of getAsyncStories()
    writes,         \* number of localStorage.setItem calls so far
    calls,          \* number of setSearchTerm calls so far
    lastEvent,      \* the handler, effect or callback that ran last
    redPrev,        \* reducer harness: state argument of the last call
    redAction,      \* reducer harness: action argument of the last call
    redState,       \* reducer harness: current state
    redThrew,       \* reducer harness: the last call threw
    fltStories,     \* filter harness: the list the filter is applied to
    fltTerm,        \* filter harness: the search term
    fltResult       \* filter harness: the filtered list

appVars == <<snapshot, phase, session, localStorage, searchTerm, stories,
             isLoading, screenLoading, isError, promise, writes, calls,
             lastEvent>>
redVars == <<redPrev, redAction, redState, redThrew>>
fltVars == <<fltStories, fltTerm, fltResult>>
harnessVars == <<redVars, fltVars>>
vars == <<snapshot, phase, session, localStorage, searchTerm, stories,
          isLoading, screenLoading, isError, promise, writes, calls, lastEvent,
          redPrev, redAction, redState, redThrew,
          fltStories, fltTerm, fltResult>>

----------------------------------------------------------------------------
(* Bounds *)

MaxSessions == 2
MaxCalls == 3
MaxLen == 3
MaxPayload == 2

----------------------------------------------------------------------------
(* Strings *)

sReact == <<"R", "e", "a", "c", "t">>
sRedux == <<"R", "e", "d", "u", "x">>
sRelay == <<"R", "e", "l", "a", "y">>

\* The values event.target.value takes, and the items localStorage may hold.
SearchTerms ==
    { <<>>, sReact, <<"r", "e", "d", "u", "x">>, <<"R", "E">>, <<"x">> }

\* String.prototype.toLowerCase on one character of the alphabet in use.
LowerChar(c) ==
    CASE c = "R" -> "r"
      [] c = "E" -> "e"
      [] c = "A" -> "a"
      [] OTHER -> c

toLowerCase(s) == [i \in 1..Len(s) |-> LowerChar(s[i])]

\* String.prototype.includes: t occurs in s as a contiguous substring.
includes(s, t) ==
    \E i \in 0..(Len(s) - Len(t)) : SubSeq(s, i + 1, i + Len(t)) = t

----------------------------------------------------------------------------
(* Stories *)

initialStories ==
    << [title |-> sReact, url |-> "https://reactjs.org/",
        author |-> "Jordan Walke", num_comments |-> 3, points |-> 4,
        objectID |-> 0],
       [title |-> sRedux, url |-> "https://redux.js.org/",
        author |-> "Dan Abramov, Andrew Clark", num_comments |-> 2,
        points |-> 5, objectID |-> 1] >>

\* const ACTIONS (the name is reserved in TLA+)
ActionTypes == [SET_STORIES |-> "SET_STORIES", REMOVE_STORY |-> "REMOVE_STORY"]

\* Outcome of a call: a returned value or a thrown Error.
Return(v) == [kind |-> "return", value |-> v]
Throw == [kind |-> "throw", value |-> <<>>]

\* Variants of storiesReducer with one plausible slip each.
\* REMOVE_STORY compares the story objects instead of their objectIDs.
storiesReducer_byReference(state, action) ==
    CASE action.type = ActionTypes.SET_STORIES ->
            Return(action.payload)
      [] action.type = ActionTypes.REMOVE_STORY ->
            Return(SelectSeq(state, LAMBDA story : action.payload # story))
      [] OTHER -> Throw

\* REMOVE_STORY as splice(findIndex(...), 1): index -1 drops the last story.
storiesReducer_splice(state, action) ==
    CASE action.type = ActionTypes.SET_STORIES ->
            Return(action.payload)
      [] action.type = ActionTypes.REMOVE_STORY ->
            IF \E i \in 1..Len(state) : state[i].objectID = action.payload.objectID
            THEN Return(SelectSeq(state,
                    LAMBDA story : action.payload.objectID # story.objectID))
            ELSE Return(SubSeq(state, 1, Len(state) - 1))
      [] OTHER -> Throw

\* SET_STORIES appends the payload to the prior state.
storiesReducer_merge(state, action) ==
    CASE action.type = ActionTypes.SET_STORIES ->
            Return(state \o action.payload)
      [] action.type = ActionTypes.REMOVE_STORY ->
            Return(SelectSeq(state,
                LAMBDA story : action.payload.objectID # story.objectID))
      [] OTHER -> Throw

\* The default branch returns the state instead of throwing.
storiesReducer_defaultReturns(state, action) ==
    CASE action.type = ActionTypes.SET_STORIES ->
            Return(action.payload)
      [] action.type = ActionTypes.REMOVE_STORY ->
            Return(SelectSeq(state,
                LAMBDA story : action.payload.objectID # story.objectID))
      [] OTHER -> Return(state)

storiesReducer(state, action) ==
    CASE action.type = ActionTypes.SET_STORIES ->
            Return(action.payload)
      [] action.type = ActionTypes.REMOVE_STORY ->
            Return(SelectSeq(state,
                LAMBDA story : action.payload.objectID # story.objectID))
      [] OTHER -> Throw

\* dispatchStories(action): useReducer replaces stories by the reducer's result.
dispatchStories(action) == storiesReducer(stories, action).value

\* The value the promise of getAsyncStories() resolves with.
getAsyncStories == [data |-> [stories |-> initialStories]]

\* Variant of filterStories: the search term is not lower-cased.
filterStories_caseSensitiveTerm(list, term) ==
    SelectSeq(list,
        LAMBDA story : includes(toLowerCase(story.title), term))

\* stories.filter(story => story.title.toLowerCase().includes(term.toLowerCase()))
filterStories(list, term) ==
    SelectSeq(list,
        LAMBDA story : includes(toLowerCase(story.title), toLowerCase(term)))

searchedStories == filterStories(stories, searchTerm)

----------------------------------------------------------------------------
(* useStorageState over localStorage *)

StorageKey == "search"

\* useStorageState's second argument at the App's call site.
initialState == IF snapshot = "App" THEN sReact ELSE <<>>

\* localStorage.getItem(key) || initialState: null and "" are both falsy.
useStorageStateInit(key, fallback) ==
    IF key \in DOMAIN localStorage /\ localStorage[key] # <<>>
    THEN localStorage[key]
    ELSE fallback

setItem(key, value) ==
    [k \in (DOMAIN localStorage) \cup {key} |->
        IF k = key THEN value ELSE localStorage[k]]

----------------------------------------------------------------------------
(* The App component *)

Sessions == 1..MaxSessions

\* Variant of ResetRendered: the reset button is outside the isLoading
\* conditional.
ResetRendered_whileLoading == snapshot = "part_002"

\* What the JSX of the render on screen holds: the search input, the list and
\* the reset button.
InputRendered == snapshot = "App" \/ ~screenLoading
ListRendered == ~screenLoading
ResetRendered == snapshot = "part_002" /\ ~screenLoading

Range(s) == {s[i] : i \in 1..Len(s)}

\* The first commit is on screen and its effects have not run yet: the
\* storage effect has not written, the load effect has not called
\* getAsyncStories().
EffectsPending == phase = "mounted" /\ promise[session] = "none"

\* An update of isLoading made by the load effect or by a promise callback is
\* queued and the render that will show it has not happened yet.
RenderPending == phase = "mounted" /\ screenLoading # isLoading

\* React runs the pending effects of the first commit when it renders the
\* update of a handler: what the storage effect and the load effect leave.
StoreAfterEffects ==
    IF EffectsPending THEN setItem(StorageKey, searchTerm) ELSE localStorage
WritesAfterEffects == IF EffectsPending THEN writes + 1 ELSE writes
LoadingAfterEffects == IF EffectsPending THEN TRUE ELSE isLoading
PromiseAfterEffects ==
    IF EffectsPending THEN [promise EXCEPT ![session] = "pending"] ELSE promise

\* Variant of Mount: useReducer(storiesReducer, initialStories).
Mount_seeded ==
    /\ phase = "unmounted"
    /\ session < MaxSessions
    /\ phase' = "mounted"
    /\ session' = session + 1
    /\ searchTerm' = useStorageStateInit(StorageKey, initialState)
    /\ stories' = initialStories
    /\ isLoading' = FALSE
    /\ screenLoading' = FALSE
    /\ isError' = FALSE
    /\ UNCHANGED <<snapshot, localStorage, promise, writes, calls>>
    /\ lastEvent' = "mount"
    /\ UNCHANGED harnessVars

\* First render and commit: the hooks take their initial values; no effect
\* has run.
Mount ==
    /\ phase = "unmounted"
    /\ session < MaxSessions
    /\ phase' = "mounted"
    /\ session' = session + 1
    /\ searchTerm' = useStorageStateInit(StorageKey, initialState)
    /\ stories' = <<>>
    /\ isLoading' = FALSE
    /\ screenLoading' = FALSE
    /\ isError' = FALSE
    /\ UNCHANGED <<snapshot, localStorage, promise, writes, calls>>
    /\ lastEvent' = "mount"
    /\ UNCHANGED harnessVars

\* The effects of the first commit: the storage effect writes the value, the
\* load effect queues setIsLoading(true) and calls getAsyncStories().  The
\* screen stays as the first commit left it.
MountEffects ==
    /\ EffectsPending
    /\ localStorage' = StoreAfterEffects
    /\ writes' = WritesAfterEffects
    /\ isLoading' = LoadingAfterEffects
    /\ promise' = PromiseAfterEffects
    /\ UNCHANGED <<snapshot, phase, session, searchTerm, stories, isError,
                   calls, screenLoading>>
    /\ lastEvent' = "effects"
    /\ UNCHANGED harnessVars

\* The render of a queued isLoading update, in a later task: the JSX follows
\* the new value.
Render ==
    /\ RenderPending
    /\ screenLoading' = isLoading
    /\ UNCHANGED <<snapshot, phase, session, localStorage, searchTerm, stories,
                   isLoading, isError, promise, writes, calls>>
    /\ lastEvent' = "render"
    /\ UNCHANGED harnessVars

\* The component is removed; effects still pending run first.
Unmount ==
    /\ phase = "mounted"
    /\ phase' = "unmounted"
    /\ localStorage' = StoreAfterEffects
    /\ writes' = WritesAfterEffects
    /\ isLoading' = LoadingAfterEffects
    /\ promise' = PromiseAfterEffects
    /\ UNCHANGED <<snapshot, session, searchTerm, stories, isError, calls,
                   screenLoading>>
    /\ lastEvent' = "unmount"
    /\ UNCHANGED harnessVars

\* Variant of handleSearch: the storage effect has no dependency array and
\* runs after every call.
handleSearch_alwaysWrites(value) ==
    /\ phase = "mounted"
    /\ InputRendered
    /\ calls < MaxCalls
    /\ calls' = calls + 1
    /\ searchTerm' = value
    /\ localStorage' = setItem(StorageKey, value)
    /\ writes' = WritesAfterEffects + 1
    /\ isLoading' = LoadingAfterEffects
    /\ promise' = PromiseAfterEffects
    /\ UNCHANGED <<snapshot, phase, session, stories, isError, screenLoading>>
    /\ lastEvent' = "search"
    /\ UNCHANGED harnessVars

\* Variant of handleSearch: the storage effect writes the value of the
\* previous render.
handleSearch_staleWrite(value) ==
    /\ phase = "mounted"
    /\ InputRendered
    /\ calls < MaxCalls
    /\ calls' = calls + 1
    /\ searchTerm' = value
    /\ IF value # searchTerm
       THEN /\ localStorage' = setItem(StorageKey, searchTerm)
            /\ writes' = WritesAfterEffects + 1
            /\ isLoading' = LoadingAfterEffects
            /\ promise' = PromiseAfterEffects
       ELSE UNCHANGED <<localStorage, writes, isLoading, promise>>
    /\ UNCHANGED <<snapshot, phase, session, stories, isError, screenLoading>>
    /\ lastEvent' = "search"
    /\ UNCHANGED harnessVars

\* Variant of handleSearch: the load effect has no dependency array, so the
\* render that follows the edit starts the load again.
handleSearch_refetch(value) ==
    /\ phase = "mounted"
    /\ InputRendered
    /\ calls < MaxCalls
    /\ calls' = calls + 1
    /\ searchTerm' = value
    /\ IF value # searchTerm
       THEN /\ localStorage' = setItem(StorageKey, value)
            /\ writes' = WritesAfterEffects + 1
            /\ isLoading' = TRUE
            /\ promise' = [promise EXCEPT ![session] = "pending"]
       ELSE UNCHANGED <<localStorage, writes, isLoading, promise>>
    /\ UNCHANGED <<snapshot, phase, session, stories, isError, screenLoading>>
    /\ lastEvent' = "search"
    /\ UNCHANGED harnessVars

\* handleSearch: setSearchTerm(event.target.value).  A changed value is
\* rendered at once: pending effects of the first commit run first, then the
\* storage effect writes the new value; an isLoading update queued by the
\* load effect is not part of this render.  With the current value React
\* bails out: no render, no effect.
handleSearch(value) ==
    /\ phase = "mounted"
    /\ InputRendered
    /\ calls < MaxCalls
    /\ calls' = calls + 1
    /\ searchTerm' = value
    /\ IF value # searchTerm
       THEN /\ localStorage' = setItem(StorageKey, value)
            /\ writes' = WritesAfterEffects + 1
            /\ isLoading' = LoadingAfterEffects
            /\ promise' = PromiseAfterEffects
       ELSE UNCHANGED <<localStorage, writes, isLoading, promise>>
    /\ UNCHANGED <<snapshot, phase, session, stories, isError, screenLoading>>
    /\ lastEvent' = "search"
    /\ UNCHANGED harnessVars

\* handleSearch when localStorage.setItem throws (quota exceeded, storage
\* denied): nothing catches the error of the effect and React unmounts the
\* whole tree.  With the effects of the first commit still pending, either
\* their write of the initial value throws and the load effect after it does
\* not run, or that write succeeds, the load effect runs and the write of
\* the new value throws.
handleSearchThrows(value) ==
    /\ phase = "mounted"
    /\ InputRendered
    /\ calls < MaxCalls
    /\ value # searchTerm
    /\ calls' = calls + 1
    /\ searchTerm' = value
    /\ phase' = "crashed"
    /\ \/ /\ writes' = writes + 1
          /\ UNCHANGED <<localStorage, isLoading, promise>>
       \/ /\ EffectsPending
          /\ writes' = writes + 2
          /\ localStorage' = StoreAfterEffects
          /\ isLoading' = LoadingAfterEffects
          /\ promise' = PromiseAfterEffects
    /\ UNCHANGED <<snapshot, session, stories, isError, screenLoading>>
    /\ lastEvent' = "search"
    /\ UNCHANGED harnessVars

\* The effects of the first commit when localStorage.setItem throws in the
\* storage effect: React unmounts the tree.  Whether the load effect,
\* declared after it, still runs depends on the React version: the fetch is
\* started or not.
MountThrows ==
    /\ EffectsPending
    /\ phase' = "crashed"
    /\ writes' = writes + 1
    /\ promise' \in { [promise EXCEPT ![session] = st] : st \in {"none", "pending"} }
    /\ UNCHANGED <<snapshot, session, localStorage, searchTerm, stories,
                   isLoading, isError, calls, screenLoading>>
    /\ lastEvent' = "effects"
    /\ UNCHANGED harnessVars

\* The first render when localStorage.getItem throws (storage denied):
\* nothing is committed.
MountReadThrows ==
    /\ phase = "unmounted"
    /\ session < MaxSessions
    /\ phase' = "crashed"
    /\ session' = session + 1
    /\ UNCHANGED <<snapshot, localStorage, searchTerm, stories, isLoading,
                   isError, promise, writes, calls, screenLoading>>
    /\ lastEvent' = "mount"
    /\ UNCHANGED harnessVars

\* The Dismiss button of a rendered item.
handleRemoveStory(item) ==
    /\ phase = "mounted"
    /\ ListRendered
    /\ item \in Range(searchedStories)
    /\ stories' = dispatchStories([type |-> ActionTypes.REMOVE_STORY, payload |-> item])
    /\ localStorage' = StoreAfterEffects
    /\ writes' = WritesAfterEffects
    /\ isLoading' = LoadingAfterEffects
    /\ promise' = PromiseAfterEffects
    /\ UNCHANGED <<snapshot, phase, session, searchTerm, isError, calls,
                   screenLoading>>
    /\ lastEvent' = "remove"
    /\ UNCHANGED harnessVars

\* Variant of resetStories: resets to the reducer's initial state [].
resetStories_empty ==
    /\ phase = "mounted"
    /\ ResetRendered
    /\ stories' = dispatchStories([type |-> ActionTypes.SET_STORIES, payload |-> <<>>])
    /\ localStorage' = StoreAfterEffects
    /\ writes' = WritesAfterEffects
    /\ isLoading' = LoadingAfterEffects
    /\ promise' = PromiseAfterEffects
    /\ UNCHANGED <<snapshot, phase, session, searchTerm, isError, calls,
                   screenLoading>>
    /\ lastEvent' = "reset"
    /\ UNCHANGED harnessVars

\* Variant of resetStories: the reset also clears the search box.
resetStories_clearsSearch ==
    /\ phase = "mounted"
    /\ ResetRendered
    /\ stories' = dispatchStories([type |-> ActionTypes.SET_STORIES, payload |-> initialStories])
    /\ searchTerm' = <<>>
    /\ localStorage' = setItem(StorageKey, <<>>)
    /\ writes' = IF searchTerm # <<>> THEN WritesAfterEffects + 1 ELSE WritesAfterEffects
    /\ isLoading' = LoadingAfterEffects
    /\ promise' = PromiseAfterEffects
    /\ UNCHANGED <<snapshot, phase, session, isError, calls, screenLoading>>
    /\ lastEvent' = "reset"
    /\ UNCHANGED harnessVars

\* The Reset button: dispatchStories(SET_STORIES, initialStories), rendered
\* at once; pending effects of the first commit run first.
resetStories ==
    /\ phase = "mounted"
    /\ ResetRendered
    /\ stories' = dispatchStories([type |-> ActionTypes.SET_STORIES, payload |-> initialStories])
    /\ localStorage' = StoreAfterEffects
    /\ writes' = WritesAfterEffects
    /\ isLoading' = LoadingAfterEffects
    /\ promise' = PromiseAfterEffects
    /\ UNCHANGED <<snapshot, phase, session, searchTerm, isError, calls,
                   screenLoading>>
    /\ lastEvent' = "reset"
    /\ UNCHANGED harnessVars

\* The component a promise belongs to is still on screen.
Live(s) == phase = "mounted" /\ s = session

\* The promise settles when the 2000 ms timer of getAsyncStories has fired;
\* the render queued by the load effect that started the timer is done by
\* then.
Settles(s) == promise[s] = "pending" /\ (Live(s) => ~RenderPending)

\* Variant of FetchResolved: the then-handler omits setIsLoading(false).
FetchResolved_keepsLoading(s) ==
    /\ Settles(s)
    /\ promise' = [promise EXCEPT ![s] = "fulfilled"]
    /\ IF Live(s)
       THEN stories' = dispatchStories([type |-> ActionTypes.SET_STORIES,
                                        payload |-> getAsyncStories.data.stories])
       ELSE UNCHANGED stories
    /\ UNCHANGED <<snapshot, phase, session, localStorage, searchTerm,
                   isLoading, isError, writes, calls>>
    /\ lastEvent' = IF Live(s) THEN "resolved" ELSE "discarded"
    /\ UNCHANGED <<screenLoading, harnessVars>>

\* Variant of FetchResolved: the then-handler throws after its updates and
\* the chained catch-handler runs as well.
FetchResolved_thenCaught(s) ==
    /\ Settles(s)
    /\ promise' = [promise EXCEPT ![s] = "fulfilled"]
    /\ IF Live(s)
       THEN /\ stories' = dispatchStories([type |-> ActionTypes.SET_STORIES,
                                           payload |-> getAsyncStories.data.stories])
            /\ isLoading' = FALSE
            /\ isError' = TRUE
       ELSE UNCHANGED <<stories, isLoading, isError>>
    /\ UNCHANGED <<snapshot, phase, session, localStorage, searchTerm,
                   writes, calls>>
    /\ lastEvent' = IF Live(s) THEN "resolved" ELSE "discarded"
    /\ UNCHANGED <<screenLoading, harnessVars>>

\* Variant of FetchResolved: the updates of a torn-down component are applied.
FetchResolved_afterTeardown(s) ==
    /\ Settles(s)
    /\ promise' = [promise EXCEPT ![s] = "fulfilled"]
    /\ stories' = dispatchStories([type |-> ActionTypes.SET_STORIES,
                                   payload |-> getAsyncStories.data.stories])
    /\ isLoading' = FALSE
    /\ UNCHANGED <<snapshot, phase, session, localStorage, searchTerm,
                   isError, writes, calls>>
    /\ lastEvent' = IF Live(s) THEN "resolved" ELSE "discarded"
    /\ UNCHANGED <<screenLoading, harnessVars>>

\* .then((result) => { dispatchStories(SET_STORIES); setIsLoading(false) })
FetchResolved(s) ==
    /\ Settles(s)
    /\ promise' = [promise EXCEPT ![s] = "fulfilled"]
    /\ IF Live(s)
       THEN /\ stories' = dispatchStories([type |-> ActionTypes.SET_STORIES,
                                           payload |-> getAsyncStories.data.stories])
            /\ isLoading' = FALSE
       ELSE UNCHANGED <<stories, isLoading>>
    /\ UNCHANGED <<snapshot, phase, session, localStorage, searchTerm,
                   isError, writes, calls>>
    /\ lastEvent' = IF Live(s) THEN "resolved" ELSE "discarded"
    /\ UNCHANGED <<screenLoading, harnessVars>>

\* Variant of FetchRejected: the catch-handler falls back to the seed list.
FetchRejected_showsSeed(s) ==
    /\ Settles(s)
    /\ promise' = [promise EXCEPT ![s] = "rejected"]
    /\ IF Live(s)
       THEN /\ isError' = TRUE
            /\ stories' = dispatchStories([type |-> ActionTypes.SET_STORIES,
                                           payload |-> initialStories])
       ELSE UNCHANGED <<isError, stories>>
    /\ UNCHANGED <<snapshot, phase, session, localStorage, searchTerm,
                   isLoading, writes, calls>>
    /\ lastEvent' = IF Live(s) THEN "rejected" ELSE "discarded"
    /\ UNCHANGED <<screenLoading, harnessVars>>

\* .catch(() => setIsError(true))
FetchRejected(s) ==
    /\ Settles(s)
    /\ promise' = [promise EXCEPT ![s] = "rejected"]
    /\ IF Live(s)
       THEN isError' = TRUE
       ELSE UNCHANGED isError
    /\ UNCHANGED <<snapshot, phase, session, localStorage, searchTerm,
                   stories, isLoading, writes, calls>>
    /\ lastEvent' = IF Live(s) THEN "rejected" ELSE "discarded"
    /\ UNCHANGED <<screenLoading, harnessVars>>

----------------------------------------------------------------------------
(* Reducer harness: storiesReducer applied to arbitrary states and actions *)

StoryPool ==
    { initialStories[1], initialStories[2],
      [initialStories[1] EXCEPT !.points = 9],
      [title |-> sRelay, url |-> "https://relay.dev/", author |-> "Joe Savona",
       num_comments |-> 0, points |-> 1, objectID |-> 2] }

RECURSIVE SeqsUpTo(_, _)
SeqsUpTo(S, n) ==
    IF n = 0 THEN { <<>> }
    ELSE LET shorter == SeqsUpTo(S, n - 1)
         IN shorter \cup { Append(q, x) : q \in shorter, x \in S }

Collections == SeqsUpTo(StoryPool, MaxLen)

UnknownTypes == { "ADD_STORY" }

NoAction == [type |-> "NONE", payload |-> <<>>]

Reduce(action) ==
    /\ ~redThrew
    /\ LET r == storiesReducer(redState, action)
       IN /\ redThrew' = (r.kind = "throw")
          /\ redState' = IF r.kind = "throw" THEN redState ELSE r.value
    /\ redPrev' = redState
    /\ redAction' = action
    /\ UNCHANGED appVars
    /\ UNCHANGED fltVars

Payloads == SeqsUpTo(StoryPool, MaxPayload)

ReduceSet == \E p \in Payloads :
    Reduce([type |-> ActionTypes.SET_STORIES, payload |-> p])

ReduceRemove == \E item \in StoryPool :
    Reduce([type |-> ActionTypes.REMOVE_STORY, payload |-> item])

ReduceUnknown == \E t \in UnknownTypes :
    Reduce([type |-> t, payload |-> <<>>])

----------------------------------------------------------------------------
(* Filter harness: the searchedStories projection on arbitrary lists *)

FilterTerms == SearchTerms \cup { <<"r", "e">>, <<"A">> }

\* A render with the given search term.
FilterTerm(term) ==
    /\ fltTerm' = term
    /\ fltResult' = filterStories(fltStories, term)
    /\ UNCHANGED fltStories
    /\ UNCHANGED <<appVars, redVars>>

\* A render with the given list.
FilterList(list) ==
    /\ fltStories' = list
    /\ fltResult' = filterStories(list, fltTerm)
    /\ UNCHANGED fltTerm
    /\ UNCHANGED <<appVars, redVars>>

----------------------------------------------------------------------------
(* Specifications *)

AppIdle ==
    /\ phase = "unmounted"
    /\ session = 0
    /\ searchTerm = <<>>
    /\ stories = <<>>
    /\ isLoading = FALSE
    /\ screenLoading = FALSE
    /\ isError = FALSE
    /\ promise = [s \in Sessions |-> "none"]
    /\ writes = 0
    /\ calls = 0
    /\ lastEvent = "none"

RedIdle ==
    /\ redPrev = <<>>
    /\ redAction = NoAction
    /\ redState = <<>>
    /\ redThrew = FALSE

FltIdle ==
    /\ fltStories = <<>>
    /\ fltTerm = <<>>
    /\ fltResult = <<>>

Init ==
    /\ snapshot \in {"App", "part_002"}
    /\ localStorage \in UNION { [D -> SearchTerms] : D \in SUBSET {StorageKey} }
    /\ AppIdle
    /\ RedIdle
    /\ FltIdle

Next ==
    \/ Mount
    \/ MountEffects
    \/ Render
    \/ Unmount
    \/ \E value \in SearchTerms : handleSearch(value)
    \/ \E item \in Range(initialStories) : handleRemoveStory(item)
    \/ resetStories
    \/ \E s \in Sessions : FetchResolved(s)
    \/ \E s \in Sessions : FetchRejected(s)

Spec == Init /\ [][Next]_vars

\* The App over a store whose writes may fail.
FailingStoreNext ==
    \/ Next
    \/ \E value \in SearchTerms : handleSearchThrows(value)
    \/ MountThrows
    \/ MountReadThrows

FailingStoreSpec == Init /\ [][FailingStoreNext]_vars

ReducerInit ==
    /\ snapshot = "App"
    /\ localStorage = << >>
    /\ AppIdle
    /\ redPrev = <<>>
    /\ redAction = NoAction
    /\ redState \in Collections
    /\ redThrew = FALSE
    /\ FltIdle

ReducerNext ==
    \/ ReduceSet
    \/ ReduceRemove
    \/ ReduceUnknown

ReducerSpec == ReducerInit /\ [][ReducerNext]_vars

FilterInit ==
    /\ snapshot = "App"
    /\ localStorage = << >>
    /\ AppIdle
    /\ RedIdle
    /\ FltIdle

FilterNext ==
    \/ \E term \in FilterTerms : FilterTerm(term)
    \/ \E list \in Collections : FilterList(list)

FilterSpec == FilterInit /\ [][FilterNext]_vars

----------------------------------------------------------------------------
(* Properties of the load effect (Spec) *)

\* C1: whenever a load has been started and the repository call fails, the
\* resulting state has isLoading = false and isError = true.
C1_FailedLoadFlags ==
    \A s \in Sessions :
        (Live(s) /\ promise[s] = "rejected") => (~isLoading /\ isError)

\* C2: a load that resolves leaves isLoading = false, isError = false and
\* stories equal to the payload the repository resolved with, in its order.
C2_SuccessfulLoad ==
    [][\A s \in Sessions :
         (Live(s) /\ promise[s] = "pending" /\ promise'[s] = "fulfilled")
            => /\ ~isLoading'
               /\ ~isError'
               /\ stories' = getAsyncStories.data.stories]_vars

C2_Witness ==
    /\ Live(session)
    /\ promise[session] = "fulfilled"
    /\ stories = initialStories
    /\ ~isLoading
    /\ ~isError

\* C3 as stated: a failed load leaves stories as it was immediately before
\* the failure, which is the empty sequence when the load was the first one
\* of its component.
C3_FailedLoadLeavesEmpty ==
    [][\A s \in Sessions :
         (promise[s] = "pending" /\ promise'[s] = "rejected")
            => /\ stories' = stories
               /\ Live(s) => stories' = <<>>]_vars

\* C3 as amended: a failed load leaves stories as it was immediately before
\* the failure; at the failure of a first load that is the empty sequence
\* unless a reset click came before the loading render, which only the
\* component with a reset button (part_002) allows.
C3_FailedLoadKeepsStories ==
    [][\A s \in Sessions :
         (promise[s] = "pending" /\ promise'[s] = "rejected")
            => /\ stories' = stories
               /\ (Live(s) /\ snapshot = "App") => stories' = <<>>
               /\ Live(s) => Range(stories') \subseteq Range(initialStories)]_vars

C3_Witness ==
    /\ Live(session)
    /\ lastEvent = "rejected"
    /\ promise[session] = "rejected"
    /\ isError
    /\ stories = initialStories

----------------------------------------------------------------------------
(* Properties of storiesReducer (ReducerSpec) *)

UniqueIDs(S) ==
    \A i, j \in 1..Len(S) : S[i].objectID = S[j].objectID => i = j

HasID(S, id) == \E i \in 1..Len(S) : S[i].objectID = id

WithoutIndex(S, i) == SubSeq(S, 1, i - 1) \o SubSeq(S, i + 1, Len(S))

\* C4: removing a story whose objectID occurs in a collection of unique
\* objectIDs yields that collection minus the one story with that objectID:
\* one shorter, without the objectID, the rest in their original order.
C4_RemoveMember ==
    ( /\ redAction.type = ActionTypes.REMOVE_STORY
      /\ UniqueIDs(redPrev)
      /\ HasID(redPrev, redAction.payload.objectID) )
    => /\ Len(redState) = Len(redPrev) - 1
       /\ ~HasID(redState, redAction.payload.objectID)
       /\ \E i \in 1..Len(redPrev) :
            /\ redPrev[i].objectID = redAction.payload.objectID
            /\ redState = WithoutIndex(redPrev, i)

C4_Witness ==
    /\ redAction.type = ActionTypes.REMOVE_STORY
    /\ UniqueIDs(redPrev)
    /\ Len(redPrev) = 3
    /\ redPrev[2].objectID = redAction.payload.objectID
    /\ redPrev[2] # redAction.payload
    /\ redState = <<redPrev[1], redPrev[3]>>

\* C5: removing a story whose objectID does not occur in the collection
\* returns the collection unchanged.
C5_RemoveNonMember ==
    ( /\ redAction.type = ActionTypes.REMOVE_STORY
      /\ ~HasID(redPrev, redAction.payload.objectID) )
    => (~redThrew /\ redState = redPrev)

C5_Witness ==
    /\ redAction.type = ActionTypes.REMOVE_STORY
    /\ Len(redPrev) = 2
    /\ ~HasID(redPrev, redAction.payload.objectID)
    /\ redState = redPrev

\* C6: SET_STORIES returns its payload whatever the prior state was.
C6_SetReplaces ==
    redAction.type = ActionTypes.SET_STORIES
        => (~redThrew /\ redState = redAction.payload)

C6_Witness ==
    /\ redAction.type = ActionTypes.SET_STORIES
    /\ Len(redPrev) = 2
    /\ Len(redAction.payload) = 1
    /\ ~HasID(redPrev, redAction.payload[1].objectID)
    /\ redState = redAction.payload

\* C7: an action whose type is neither SET_STORIES nor REMOVE_STORY makes the
\* reducer throw; no state is returned.
C7_UnknownActionThrows ==
    redAction.type \in UnknownTypes => redThrew

C7_Witness ==
    /\ redAction.type \in UnknownTypes
    /\ redThrew
    /\ redPrev # <<>>

----------------------------------------------------------------------------
(* Properties of useStorageState (Spec) *)

\* C8: creating the cell returns the store's value for the key whenever the
\* key is present in the store, and the fallback only when it is absent.
C8_CreationReadsStore ==
    [][Mount =>
         IF StorageKey \in DOMAIN localStorage
         THEN searchTerm' = localStorage[StorageKey]
         ELSE searchTerm' = initialState]_vars

\* C9 as stated: every setValue call performs exactly one write and no write
\* happens without a setValue call.
C9_OneWritePerCall ==
    [][\/ (calls' = calls + 1 /\ writes' = writes + 1)
       \/ (calls' = calls /\ writes' = writes)]_vars

\* C9 as amended: a setValue call that changes the value performs exactly one
\* write and a call with the current value performs none; the only other
\* write is the one write of the initial value by the effect of the creating
\* render, which runs on its own or ahead of the first render of an event.
C9_WriteOnChange ==
    [][/\ calls' = calls + 1 =>
            writes' = IF searchTerm' # searchTerm
                      THEN WritesAfterEffects + 1
                      ELSE writes
       /\ (calls' = calls /\ writes' # writes) =>
            /\ EffectsPending
            /\ promise'[session] = "pending"
            /\ writes' = writes + 1
       /\ calls' \in {calls, calls + 1}]_vars

C9_Witness ==
    /\ phase = "mounted"
    /\ session = 1
    /\ calls = 2
    /\ writes = 2

\* C10 as stated: in every observable state after creation, the store's
\* value under the key equals the in-memory search term.
C10_StoreInSync ==
    phase = "mounted" =>
        /\ StorageKey \in DOMAIN localStorage
        /\ localStorage[StorageKey] = searchTerm

\* C10 as amended: once the storage effect of the creating render has run,
\* the store's value under the key equals the in-memory search term in every
\* observable state; before it, the store is as it was found and the search
\* term is what creation read from it.
C10_StoreInSyncAfterEffects ==
    /\ (phase = "mounted" /\ ~EffectsPending) =>
            /\ StorageKey \in DOMAIN localStorage
            /\ localStorage[StorageKey] = searchTerm
    /\ EffectsPending =>
            searchTerm = useStorageStateInit(StorageKey, initialState)

C10_Witness ==
    /\ phase = "mounted"
    /\ calls > 0
    /\ writes > session
    /\ searchTerm # initialState
    /\ localStorage[StorageKey] = searchTerm

----------------------------------------------------------------------------
(* Storage write failure (FailingStoreSpec) *)

\* C11: when a write of the search term to the store fails, the failure is
\* ignored: the App stays up, the in-memory search term holds the new value
\* and stories, isLoading and isError are unaffected.
C11_WriteFailureNonFatal ==
    [][\A value \in SearchTerms :
         handleSearchThrows(value)
            => /\ phase' = "mounted"
               /\ searchTerm' = value
               /\ UNCHANGED <<stories, isLoading, isError>>]_vars

----------------------------------------------------------------------------
(* Unique identity (Spec) *)

\* C12: in every state reached through load results, remove clicks and reset
\* clicks, stories holds no two stories with the same objectID.
C12_UniqueObjectIDs == UniqueIDs(stories)

C12_Witness ==
    /\ phase = "mounted"
    /\ lastEvent = "remove"
    /\ Len(stories) = 1

----------------------------------------------------------------------------
(* Filter projection (FilterSpec) *)

\* The title of the story, lower-cased, contains the lower-cased term.
TitleMatches(story, term) ==
    LET title == toLowerCase(story.title)
        low == toLowerCase(term)
    IN \E i \in 0..Len(title) :
          /\ i + Len(low) <= Len(title)
          /\ \A k \in 1..Len(low) : title[i + k] = low[k]

\* C13: the filtered view is exactly the stories whose lower-cased title
\* contains the lower-cased term, in their order in the list; it is the whole
\* list when the term is empty and does not depend on the term's letter case.
C13_FilterProjection ==
    LET idx == { i \in 1..Len(fltStories) : TitleMatches(fltStories[i], fltTerm) }
    IN /\ Len(fltResult) = Cardinality(idx)
       /\ \A i \in idx :
            fltResult[Cardinality({ j \in idx : j <= i })] = fltStories[i]
       /\ fltTerm = <<>> => fltResult = fltStories
       /\ \A other \in FilterTerms :
            toLowerCase(other) = toLowerCase(fltTerm)
                => filterStories(fltStories, other) = fltResult

C13_Witness ==
    /\ fltTerm = <<"A">>
    /\ Len(fltStories) = 3
    /\ UniqueIDs(fltStories)
    /\ fltResult = <<fltStories[1], fltStories[3]>>

----------------------------------------------------------------------------
(* Reset and the load sequence (Spec) *)

\* C14: after a reset click stories equals initialStories, whatever was
\* removed before and whatever the load status at the click.
C14_ResetRestoresSeed ==
    lastEvent = "reset" => stories = initialStories

C14_Witness ==
    /\ phase = "mounted"
    /\ snapshot = "part_002"
    /\ lastEvent = "reset"
    /\ promise[session] = "fulfilled"
    /\ stories = initialStories

FetchOutstanding == phase = "mounted" /\ promise[session] = "pending"

\* C15 as stated: while a fetch is outstanding, search-term edits and reset
\* clicks can still occur.
C15_ActionsDuringFetch ==
    (FetchOutstanding /\ calls < MaxCalls)
        => /\ ENABLED (\E value \in SearchTerms : handleSearch(value))
           /\ snapshot = "part_002" => ENABLED resetStories

\* C15 as amended: while a fetch is outstanding, what can occur follows the
\* render on screen.  Until the render of isLoading = true is on screen,
\* search-term edits, remove clicks of the listed stories and (part_002)
\* reset clicks can occur; once it is on screen no remove click and no reset
\* click can occur and a search-term edit only where the search input is
\* rendered while loading (src/src/App.tsx).  An edit that occurs is applied
\* to the search term at once, the fetch still outstanding.
C15_OnlyRenderedDuringFetch ==
    /\ []((FetchOutstanding /\ screenLoading) =>
            /\ ~ENABLED resetStories
            /\ ~ENABLED (\E item \in Range(initialStories) : handleRemoveStory(item))
            /\ (snapshot = "App" /\ calls < MaxCalls)
                  => ENABLED (\E value \in SearchTerms : handleSearch(value))
            /\ snapshot = "part_002"
                  => ~ENABLED (\E value \in SearchTerms : handleSearch(value)))
    /\ []((FetchOutstanding /\ ~screenLoading) =>
            /\ calls < MaxCalls
                  => ENABLED (\E value \in SearchTerms : handleSearch(value))
            /\ snapshot = "part_002" <=> ENABLED resetStories
            /\ \A item \in Range(searchedStories) : ENABLED handleRemoveStory(item))
    /\ [][\A value \in SearchTerms :
            (FetchOutstanding /\ handleSearch(value))
                => (searchTerm' = value /\ FetchOutstanding')]_vars

C15_Witness ==
    /\ FetchOutstanding
    /\ screenLoading
    /\ snapshot = "App"
    /\ lastEvent = "search"
    /\ searchTerm = <<"x">>
    /\ localStorage[StorageKey] = <<"x">>

\* C16: the repository is invoked exactly once per mount, by the mount
\* itself; a settled load is never started again.
C16_SingleLoad ==
    /\ [](\A s \in Sessions : s > session => promise[s] = "none")
    /\ [][\A s \in Sessions :
            (promise[s] # "pending" /\ promise'[s] = "pending")
                => /\ promise[s] = "none"
                   /\ EffectsPending
                   /\ s = session]_vars
    /\ [][(EffectsPending /\ ~EffectsPending')
                => promise'[session] = "pending"]_vars

C16_Witness ==
    /\ phase = "mounted"
    /\ lastEvent = "search"
    /\ writes > session
    /\ promise[session] = "fulfilled"

\* C17: isError and a list populated by the same load's success never hold
\* together, and a settled load keeps its one outcome.
C17_ErrorSuccessExclusive ==
    /\ [](phase = "mounted" =>
            /\ ~(isError /\ promise[session] = "fulfilled")
            /\ isError => promise[session] = "rejected")
    /\ [][\A s \in Sessions :
            /\ promise[s] = "fulfilled" => promise'[s] = "fulfilled"
            /\ promise[s] = "rejected" => promise'[s] = "rejected"]_vars

C17_Witness ==
    /\ phase = "mounted"
    /\ lastEvent = "resolved"
    /\ ~isError
    /\ stories = initialStories

\* C18: when the component was torn down before the fetch completed, the
\* completion changes neither stories nor isLoading nor isError and raises
\* no error.
C18_TeardownDiscardsCompletion ==
    [][\A s \in Sessions :
         (promise[s] = "pending" /\ promise'[s] # "pending" /\ ~Live(s))
            => /\ UNCHANGED <<stories, isLoading, isError>>
               /\ UNCHANGED <<phase, searchTerm, localStorage>>]_vars

C18_Witness ==
    /\ phase = "unmounted"
    /\ lastEvent = "discarded"
    /\ promise[session] = "fulfilled"
    /\ stories = <<>>
    /\ isLoading

RECURSIVE IsSubsequence(_, _)
IsSubsequence(a, b) ==
    IF a = <<>> THEN TRUE
    ELSE IF b = <<>> THEN FALSE
    ELSE IF Head(a) = Head(b) THEN IsSubsequence(Tail(a), Tail(b))
    ELSE IsSubsequence(a, Tail(b))

\* C19 as stated: stories is always an order-preserving subsequence of
\* initialStories, empty until a load has succeeded; only a load success or
\* a reset makes it longer and a remove click never does.
C19_SubsequenceOfSeed ==
    /\ [](IsSubsequence(stories, initialStories))
    /\ []((session = 0 \/ promise[session] # "fulfilled") => stories = <<>>)
    /\ [][/\ Len(stories') > Len(stories) => lastEvent' \in {"resolved", "reset"}
          /\ (lastEvent' = "remove" /\ stories' # stories)
                => Len(stories') < Len(stories)]_vars

\* C19 as amended: stories is always an order-preserving subsequence of
\* initialStories, empty from the first render until a load success or a
\* reset click; only a load success or a reset makes it longer and a remove
\* click never does.
C19_SubsequenceUntilAdded ==
    /\ [](IsSubsequence(stories, initialStories))
    /\ []((session = 0 \/ EffectsPending) => stories = <<>>)
    /\ [][/\ (phase # "mounted" /\ phase' = "mounted") => stories' = <<>>
          /\ Len(stories') > Len(stories) => lastEvent' \in {"resolved", "reset"}
          /\ (lastEvent' = "remove" /\ stories' # stories)
                => Len(stories') < Len(stories)]_vars

C19_Witness ==
    /\ phase = "mounted"
    /\ lastEvent = "reset"
    /\ promise[session] = "pending"
    /\ isLoading
    /\ stories = initialStories

\* C20 as stated: a search-term edit leaves stories, isLoading and isError
\* unchanged; a remove click or a reset click leaves the search term, the
\* stored value, isLoading and isError unchanged.
C20_HandlerFrames ==
    [][/\ lastEvent' = "search"
            => UNCHANGED <<stories, isLoading, isError>>
       /\ lastEvent' \in {"remove", "reset"}
            => UNCHANGED <<searchTerm, localStorage, isLoading, isError>>]_vars

\* C20 as amended: a search-term edit leaves stories and isError unchanged,
\* a remove click or a reset click leaves the search term and isError
\* unchanged; isLoading and, for the clicks, the stored value change with
\* the event only when it arrives before the effects of the first render
\* have run, and then to what those effects make them.
C20_HandlerFramesAfterEffects ==
    [][/\ lastEvent' = "search"
            => /\ UNCHANGED <<stories, isError>>
               /\ isLoading' = IF searchTerm' # searchTerm
                                THEN LoadingAfterEffects
                                ELSE isLoading
       /\ lastEvent' \in {"remove", "reset"}
            => /\ UNCHANGED <<searchTerm, isError>>
               /\ localStorage' = StoreAfterEffects
               /\ isLoading' = LoadingAfterEffects]_vars

C20_Witness ==
    /\ phase = "mounted"
    /\ snapshot = "part_002"
    /\ lastEvent = "search"
    /\ isLoading
    /\ promise[session] = "pending"
    /\ stories = <<>>
    /\ searchTerm = <<"x">>
    /\ localStorage[StorageKey] = <<"x">>

====
